---- MODULE Spec2Model ----
(***************************************************************************)
(* Model of the authentication store (AuthProvider, src/unnamed/part_000)  *)
(* and of the router (AppContent, src/src/App.tsx).                        *)
(*                                                                         *)
(* The store's React state is the variables user, profile, session,       *)
(* loading, error and initialized.  Every asynchronous flow of the code    *)
(* (the bootstrap initializeAuth, each invocation of the onAuthStateChange *)
(* callback, signOut, updateProfile, createClient) is a small process      *)
(* whose pc names the await at which it is suspended; one action is the    *)
(* synchronous run of the code from one await to the next.  The provider   *)
(* is the environment: it answers each call with any of the results the    *)
(* code distinguishes and delivers any event with any session.             *)
(*                                                                         *)
(* A null user or session is the string Null; a null profile is the        *)
(* record NullProfile.  A session is identified by the id of its user, so  *)
(* session?.user of a session s is s itself.  A call of a state setter is  *)
(* modelled as the write of the variable.                                  *)
(*                                                                         *)
(* The return of fetchProfile and the continuation of its caller are two   *)
(* promise jobs, hence two actions: between them the process is at pc      *)
(* "fetched" and holds the result in userProfile, and any other job can    *)
(* run.  An assignment to window.location.href is a write like any other:  *)
(* the code that is pending goes on running.  The catch block of the       *)
(* listener callback is not modelled: nothing in its try block throws,     *)
(* fetchProfile catching every failure of its own.                         *)
(***************************************************************************)
EXTENDS Integers, Sequences, FiniteSets, TLC

\* ------------------------------------------------------------------ bounds
\* Number of events the provider delivers to the listener in one run.
MaxEvents == 1
\* Number of calls of the store's operations (signOut, updateProfile,
\* createClient) in one run.
MaxCalls == 2

\* --------------------------------------------------------------- constants
Retries == 3
BackoffBaseMs == 500
SessionTimeoutMs == 5000
NavigateDelayMs == 100

Null == "null"
Users == {"u1", "u2"}
NewClientId == "u3"
Roles == {"client", "admin"}
NullProfile == [id |-> Null, role |-> Null]
Profiles == [id : Users \cup {NewClientId}, role : Roles]
ConfigError == "Supabase is not configured. Please connect to Supabase."
EventNames == {"SIGNED_IN", "TOKEN_REFRESHED", "SIGNED_OUT", "USER_UPDATED", "INITIAL_SESSION"}
SessionOrNull == Users \cup {Null}
\* What one query of the profiles collection can answer: a row, the "no rows"
\* error PGRST116, another error object, or a rejected promise.
QueryAnswers == {"data", "PGRST116", "error", "throw"}

RECURSIVE Pow2(_)
Pow2(n) == IF n = 0 THEN 1 ELSE 2 * Pow2(n - 1)

VARIABLES
    hasSupabaseConfig,  \* lib/supabase: the configuration flag
    supabase,           \* lib/supabase: TRUE iff the client object is not null
    user, profile, session, loading, error, initialized,  \* useState of AuthProvider
    mounted,            \* the effect's guard flag
    authSubscription,   \* Null, "active" or "unsubscribed"
    init,               \* the bootstrap process (initializeAuth)
    listeners,          \* the invocations of the onAuthStateChange callback, in order of delivery
    signOutCalls,       \* the calls of signOut(), in order of call
    updateCalls,        \* the calls of updateProfile(), in order of call
    createCalls,        \* the calls of createClient(), in order of call
    navTimers,          \* the delays of signOut's pending setTimeouts, in ms, oldest first
    renderedUsers,      \* the values of user in the renders so far
    location,           \* window.location.href: Null until a navigation, then "/"
    profilesTable,      \* provider: the profiles collection, by id
    accounts,           \* provider: ids of the auth accounts
    called              \* provider methods invoked so far

store == <<user, profile, session, loading, error, initialized>>
provider == <<profilesTable, accounts>>
vars == <<hasSupabaseConfig, supabase, user, profile, session, loading, error, initialized,
          mounted, authSubscription, init, listeners, signOutCalls, updateCalls, createCalls,
          navTimers, renderedUsers, location, profilesTable, accounts, called>>

\* The pairs (hasSupabaseConfig, supabase != null) that lib/supabase exports:
\* the client is created exactly when the configuration is present.
SupabaseModule == {<<TRUE, TRUE>>, <<FALSE, FALSE>>}

\* A process that may run fetchProfile: its locals.
\* sessUser is session.user.id; attempt is fetchProfile's counter; delay is the
\* process's pending timer, in ms (the getSession timeout or a backoff);
\* userProfile is what fetchProfile has returned to a caller not yet resumed.
IdleTask ==
    [pc |-> "start", sessUser |-> Null, attempt |-> 0, delay |-> 0,
     userProfile |-> NullProfile]

\* A process that has returned: its locals are gone.
DoneTask == [IdleTask EXCEPT !.pc = "done"]

\* The bootstrap after it has returned from its session-error branch or from
\* its catch block.
FailedTask == [IdleTask EXCEPT !.pc = "failed"]

\* The profiles collection a run starts from: u1 is an administrator, u2 has
\* signed up and has no row yet, and the client account u3 does not exist.
InitialTable ==
    [i \in Users \cup {NewClientId} |->
        IF i = "u1" THEN [id |-> "u1", role |-> "admin"] ELSE NullProfile]

Init ==
    /\ \E m \in SupabaseModule : hasSupabaseConfig = m[1] /\ supabase = m[2]
    /\ user = Null
    /\ profile = NullProfile
    /\ session = Null
    /\ loading = TRUE
    /\ error = Null
    /\ initialized = FALSE
    /\ mounted = TRUE
    /\ authSubscription = Null
    /\ init = IdleTask
    /\ listeners = << >>
    /\ signOutCalls = << >>
    /\ updateCalls = << >>
    /\ createCalls = << >>
    /\ navTimers = << >>
    /\ renderedUsers = {Null}
    /\ location = Null
    /\ profilesTable = InitialTable
    /\ accounts = Users
    /\ called = {}

\* ---------------------------------------------------------------- helpers
\* clearAuthState(): the four setters.
clearAuthState ==
    /\ user' = Null
    /\ profile' = NullProfile
    /\ session' = Null
    /\ error' = Null

\* setLoading(false); setInitialized(true)
finishLoading ==
    /\ loading' = FALSE
    /\ initialized' = TRUE

\* The component renders the store's new state: the updateProfile it creates
\* closes over the new user, and a consumer can hold the function of any
\* render.
render == renderedUsers' = renderedUsers \cup {user'}

\* The values of profile and initialized that the effect's closures hold: the
\* effect runs once, after the first render, so both are the initial state.
closureProfile == NullProfile
closureInitialized == FALSE

\* ------------------------------------------------------------ fetchProfile
\* fetchProfile(userId) up to its first await: attempt 1 has sent its query.
fetchProfileStart(t, userId) ==
    [t EXCEPT !.pc = "query", !.sessUser = userId, !.attempt = 1, !.delay = 0]

\* The process t after fetchProfile has returned data: its caller is to be
\* resumed with it; the locals of fetchProfile are gone.
Returns(t, data) ==
    [t EXCEPT !.pc = "fetched", !.attempt = 0, !.delay = 0, !.userProfile = data]

\* Variant of fetchProfileCatch that gives up one attempt early.
fetchProfileCatchGivesUpEarly(t) ==
    IF t.attempt >= Retries - 1
    THEN Returns(t, NullProfile)
    ELSE [t EXCEPT !.pc = "backoff", !.delay = Pow2(t.attempt) * BackoffBaseMs]

\* The catch block of fetchProfile: give up after the last attempt, else
\* start the backoff timer.
fetchProfileCatch(t) ==
    IF t.attempt = Retries
    THEN Returns(t, NullProfile)
    ELSE [t EXCEPT !.pc = "backoff", !.delay = Pow2(t.attempt) * BackoffBaseMs]

\* Variant of fetchProfileAnswer that treats "not found" like any other error.
fetchProfileAnswerRetriesNotFound(t, ans) ==
    IF ans = "data" /\ profilesTable[t.sessUser] # NullProfile
    THEN Returns(t, profilesTable[t.sessUser])
    ELSE fetchProfileCatch(t)

\* fetchProfile resumed by the answer to the query of the current attempt:
\* the process after it.  An answer { data, error: null } carries the row of
\* the profiles collection; when there is none, data is null and reading
\* data.role throws into the catch block.
fetchProfileAnswer(t, ans) ==
    CASE ans = "data" ->
            IF profilesTable[t.sessUser] # NullProfile
            THEN Returns(t, profilesTable[t.sessUser])
            ELSE fetchProfileCatch(t)
      [] ans = "PGRST116" -> Returns(t, NullProfile)
      [] OTHER -> fetchProfileCatch(t)

\* fetchProfile resumed by the backoff timer: the next attempt sends its query.
fetchProfileRetry(t) ==
    [t EXCEPT !.pc = "query", !.attempt = t.attempt + 1, !.delay = 0]

\* -------------------------------------------------------------- bootstrap
\* Variant of initializeUnconfigured that reports the error and leaves loading set.
initializeUnconfiguredStaysLoading ==
    /\ error' = IF mounted THEN ConfigError ELSE error
    /\ init' = DoneTask
    /\ UNCHANGED <<user, profile, session, loading, initialized>>

\* initializeAuth() without a configured provider.
initializeUnconfigured ==
    /\ IF mounted
       THEN error' = ConfigError /\ finishLoading
       ELSE UNCHANGED <<error, loading, initialized>>
    /\ init' = DoneTask
    /\ UNCHANGED <<user, profile, session>>

\* initializeAuth() with a configured provider, up to `await Promise.race(...)`.
initializeStart ==
    /\ init' = [init EXCEPT !.pc = "getSession", !.delay = SessionTimeoutMs]
    /\ UNCHANGED store

\* setupAuthListener(): subscribes unless there is no client.
setupAuthListener ==
    authSubscription' = IF ~supabase THEN authSubscription ELSE "active"

\* The provider methods the effect invokes.
effectCalls ==
    (IF ~hasSupabaseConfig \/ ~supabase THEN {} ELSE {"getSession"})
    \cup (IF ~supabase THEN {} ELSE {"onAuthStateChange"})

\* The effect: initializeAuth() up to its first await, then setupAuthListener().
UseEffect ==
    /\ init.pc = "start"
    /\ IF ~hasSupabaseConfig \/ ~supabase
       THEN initializeUnconfigured
       ELSE initializeStart
    /\ setupAuthListener
    /\ called' = called \cup effectCalls
    /\ UNCHANGED <<hasSupabaseConfig, supabase, renderedUsers,
                   mounted, listeners, signOutCalls, updateCalls,
                   createCalls, navTimers, location, provider>>

\* initializeAuth after getSession() answered with a session error.
initSessionError ==
    /\ clearAuthState
    /\ finishLoading
    /\ init' = FailedTask
    /\ called' = called

\* Variant of initResume that writes without looking at the guard flag.
initResumeUnguarded(userProfile) ==
    /\ profile' = userProfile
    /\ finishLoading
    /\ init' = DoneTask

\* Variant of initResume that drops the fetched profile.
initResumeDropsProfile(userProfile) ==
    /\ profile' = profile
    /\ IF mounted THEN finishLoading ELSE UNCHANGED <<loading, initialized>>
    /\ init' = DoneTask

\* initializeAuth after `await fetchProfile(...)` returned userProfile.
initResume(userProfile) ==
    /\ IF mounted
       THEN profile' = userProfile /\ finishLoading
       ELSE UNCHANGED <<profile, loading, initialized>>
    /\ init' = DoneTask

\* initializeAuth after getSession() answered with session s (Null: none).
\* With a user it suspends at `await fetchProfile(...)`; fetchProfile sends
\* its first query, or without a client returns null before any query.
initSession(s) ==
    IF s # Null
    THEN /\ session' = s
         /\ user' = s
         /\ error' = error
         /\ IF ~supabase
            THEN /\ init' = Returns([init EXCEPT !.sessUser = s], NullProfile)
                 /\ called' = called
            ELSE /\ init' = fetchProfileStart(init, s)
                 /\ called' = called \cup {"from"}
         /\ UNCHANGED <<profile, loading, initialized>>
    ELSE /\ clearAuthState
         /\ finishLoading
         /\ init' = DoneTask
         /\ called' = called

\* getSession() won the race: { data: { session: s }, error: sessionError }.
GetSessionAnswer(s, sessionError) ==
    /\ init.pc = "getSession"
    /\ IF ~mounted
       THEN init' = DoneTask /\ UNCHANGED <<store, called>>
       ELSE IF sessionError THEN initSessionError ELSE initSession(s)
    /\ render
    /\ UNCHANGED <<hasSupabaseConfig, supabase, mounted, authSubscription, listeners,
                   signOutCalls, updateCalls, createCalls, navTimers, location, provider>>

\* Variant of initCatch that reports the failure in the store.
initCatchSurfacesError ==
    /\ IF mounted
       THEN /\ user' = Null /\ profile' = NullProfile /\ session' = Null
            /\ error' = "Session fetch timeout"
            /\ finishLoading
       ELSE UNCHANGED store
    /\ init' = FailedTask

\* The catch block of initializeAuth.
initCatch ==
    /\ IF mounted
       THEN clearAuthState /\ finishLoading
       ELSE UNCHANGED store
    /\ init' = FailedTask

\* getSession() rejected, or the 5 s timer rejected first.
GetSessionFail(why) ==
    /\ init.pc = "getSession"
    /\ why \in {"rejected", "timeout"}
    /\ initCatch
    /\ render
    /\ UNCHANGED <<hasSupabaseConfig, supabase, mounted, authSubscription, listeners,
                   signOutCalls, updateCalls, createCalls, navTimers, location, provider, called>>

\* The provider answers the bootstrap's profile query: fetchProfile goes on to
\* its backoff, or returns.
InitFetchAnswer(ans) ==
    /\ init.pc = "query"
    /\ init' = fetchProfileAnswer(init, ans)
    /\ UNCHANGED <<hasSupabaseConfig, supabase, renderedUsers,
                   store, mounted, authSubscription, listeners,
                   signOutCalls, updateCalls, createCalls, navTimers, location, provider, called>>

\* initializeAuth is resumed with what fetchProfile returned, and runs to its end.
InitFetchResume ==
    /\ init.pc = "fetched"
    /\ initResume(init.userProfile)
    /\ UNCHANGED <<hasSupabaseConfig, supabase, renderedUsers,
                   user, session, error, mounted,
                   authSubscription, listeners, signOutCalls, updateCalls, createCalls, navTimers,
                   location, provider, called>>

\* The bootstrap's backoff timer fires.
InitFetchRetry ==
    /\ init.pc = "backoff"
    /\ init' = fetchProfileRetry(init)
    /\ called' = called \cup {"from"}
    /\ UNCHANGED <<hasSupabaseConfig, supabase, renderedUsers,
                   store, mounted, authSubscription, listeners,
                   signOutCalls, updateCalls, createCalls, navTimers, location, provider>>

\* --------------------------------------------------------------- listener
\* The finally block of the callback.
listenerFinally ==
    IF mounted /\ ~closureInitialized
    THEN finishLoading
    ELSE UNCHANGED <<loading, initialized>>

\* The callback returns at its first run: it joins the finished invocations.
listenerDone ==
    /\ listeners' = Append(listeners, DoneTask)
    /\ called' = called

\* The callback after `await fetchProfile(...)` returned userProfile, to its end.
listenerResume(userProfile) ==
    /\ profile' = IF mounted THEN userProfile ELSE profile
    /\ listenerFinally

\* The callback suspends at `await fetchProfile(s)`; fetchProfile sends its
\* first query, or without a client returns null before any query.
listenerFetch(s) ==
    /\ IF ~supabase
       THEN /\ listeners' = Append(listeners,
                                Returns([IdleTask EXCEPT !.sessUser = s], NullProfile))
            /\ called' = called
       ELSE /\ listeners' = Append(listeners, fetchProfileStart(IdleTask, s))
            /\ called' = called \cup {"from"}
    /\ UNCHANGED <<profile, loading, initialized>>

\* Variant of onSignedIn that takes an event without a session for a sign-out.
onSignedInClearsWithoutSession(s) ==
    IF s # Null
    THEN /\ session' = s
         /\ user' = s
         /\ error' = Null
         /\ listenerFetch(s)
    ELSE /\ clearAuthState
         /\ listenerFinally
         /\ listenerDone

\* case 'SIGNED_IN', 'TOKEN_REFRESHED'
onSignedIn(s) ==
    IF s # Null
    THEN /\ session' = s
         /\ user' = s
         /\ error' = Null
         /\ listenerFetch(s)
    ELSE /\ UNCHANGED <<user, profile, session, error>>
         /\ listenerFinally
         /\ listenerDone

\* Variant of onSignedOut that forgets the profile.
onSignedOutKeepsProfile ==
    /\ user' = Null
    /\ session' = Null
    /\ error' = Null
    /\ profile' = profile
    /\ listenerFinally
    /\ listenerDone

\* case 'SIGNED_OUT'
onSignedOut ==
    /\ clearAuthState
    /\ listenerFinally
    /\ listenerDone

\* case 'USER_UPDATED'
onUserUpdated(s) ==
    /\ IF s # Null
       THEN session' = s /\ user' = s
       ELSE UNCHANGED <<session, user>>
    /\ UNCHANGED <<profile, error>>
    /\ listenerFinally
    /\ listenerDone

\* default
onOtherEvent(s) ==
    IF s # Null
    THEN /\ session' = s
         /\ user' = s
         /\ error' = error
         /\ IF closureProfile = NullProfile \/ closureProfile.id # s
            THEN listenerFetch(s)
            ELSE profile' = profile /\ listenerFinally /\ listenerDone
    ELSE /\ clearAuthState
         /\ listenerFinally
         /\ listenerDone

\* The callback from its entry to its first await, or to its end.
onAuthStateChange(event, s) ==
    IF ~mounted
    THEN listenerDone /\ UNCHANGED store
    ELSE CASE event \in {"SIGNED_IN", "TOKEN_REFRESHED"} -> onSignedIn(s)
           [] event = "SIGNED_OUT" -> onSignedOut
           [] event = "USER_UPDATED" -> onUserUpdated(s)
           [] OTHER -> onOtherEvent(s)

\* The provider delivers an event to the subscribed callback.
Deliver(event, s) ==
    /\ authSubscription = "active"
    /\ Len(listeners) < MaxEvents
    /\ onAuthStateChange(event, s)
    /\ render
    /\ UNCHANGED <<hasSupabaseConfig, supabase, mounted, authSubscription, init,
                   signOutCalls, updateCalls, createCalls, navTimers, location, provider>>

\* The provider answers the profile query of invocation i: fetchProfile goes on
\* to its backoff, or returns.
ListenerFetchAnswer(i, ans) ==
    /\ listeners[i].pc = "query"
    /\ listeners' = [listeners EXCEPT ![i] = fetchProfileAnswer(listeners[i], ans)]
    /\ UNCHANGED <<hasSupabaseConfig, supabase, renderedUsers,
                   store, mounted, authSubscription, init,
                   signOutCalls, updateCalls, createCalls, navTimers, location, provider, called>>

\* Invocation i of the callback is resumed with what fetchProfile returned,
\* and runs to its end.
ListenerFetchResume(i) ==
    /\ listeners[i].pc = "fetched"
    /\ listenerResume(listeners[i].userProfile)
    /\ listeners' = [listeners EXCEPT ![i] = DoneTask]
    /\ UNCHANGED <<hasSupabaseConfig, supabase, renderedUsers,
                   user, session, error, mounted,
                   authSubscription, init, signOutCalls, updateCalls, createCalls, navTimers,
                   location, provider, called>>

\* The backoff timer of invocation i fires.
ListenerFetchRetry(i) ==
    /\ listeners[i].pc = "backoff"
    /\ listeners' = [listeners EXCEPT ![i] = fetchProfileRetry(listeners[i])]
    /\ called' = called \cup {"from"}
    /\ UNCHANGED <<hasSupabaseConfig, supabase, renderedUsers,
                   store, mounted, authSubscription, init,
                   signOutCalls, updateCalls, createCalls, navTimers, location, provider>>

\* ---------------------------------------------------------------- cleanup
\* The effect's cleanup function.
Cleanup ==
    /\ init.pc # "start"
    /\ mounted
    /\ mounted' = FALSE
    /\ authSubscription' = IF authSubscription = Null THEN Null ELSE "unsubscribed"
    /\ UNCHANGED <<hasSupabaseConfig, supabase, renderedUsers,
                   store, init, listeners, signOutCalls, updateCalls,
                   createCalls, navTimers, location, provider, called>>

\* ------------------------------------------------------------- operations
\* The calls of the store's operations made so far.
callsMade == Len(signOutCalls) + Len(updateCalls) + Len(createCalls)

\* A consumer holding the context value can call an operation at any time,
\* any number of times, whatever the earlier calls have come to.
CanCall == callsMade < MaxCalls

\* ----------------------------------------------------------------- signOut
\* signOut() up to `await supabase.auth.signOut()`; without a client it returns.
signOutStart ==
    IF ~supabase
    THEN /\ signOutCalls' = Append(signOutCalls, [pc |-> "returned"])
         /\ UNCHANGED <<loading, called>>
    ELSE /\ loading' = TRUE
         /\ signOutCalls' = Append(signOutCalls, [pc |-> "awaiting"])
         /\ called' = called \cup {"signOut"}

\* A consumer calls signOut().
SignOutCall ==
    /\ CanCall
    /\ signOutStart
    /\ UNCHANGED <<hasSupabaseConfig, supabase, renderedUsers,
                   user, profile, session, error, initialized,
                   mounted, authSubscription, init, listeners, updateCalls, createCalls,
                   navTimers, location, provider>>

\* signOut() after the provider answered { error } (null or not): the state is
\* cleared, the navigation is scheduled, and finally loading is reset.
signOutAnswered ==
    /\ clearAuthState
    /\ navTimers' = Append(navTimers, NavigateDelayMs)
    /\ location' = location
    /\ loading' = FALSE

\* The provider answers call i of signOut().
SignOutAnswer(i, err) ==
    /\ i \in 1..Len(signOutCalls)
    /\ signOutCalls[i].pc = "awaiting"
    /\ signOutAnswered
    /\ signOutCalls' = [signOutCalls EXCEPT ![i].pc = "returned"]
    /\ render
    /\ UNCHANGED <<hasSupabaseConfig, supabase, initialized, mounted, authSubscription, init,
                   listeners, updateCalls, createCalls, provider, called>>

\* Variant of signOutCatch that only logs the error.
signOutCatchStays ==
    /\ location' = location
    /\ navTimers' = navTimers
    /\ loading' = FALSE
    /\ UNCHANGED <<user, profile, session, error>>

\* signOut() after the provider's call rejected: the catch block navigates at
\* once, and finally loading is reset.
signOutCatch ==
    /\ location' = "/"
    /\ navTimers' = navTimers
    /\ loading' = FALSE
    /\ UNCHANGED <<user, profile, session, error>>

\* The provider's call of call i of signOut() rejects.
SignOutThrow(i) ==
    /\ i \in 1..Len(signOutCalls)
    /\ signOutCalls[i].pc = "awaiting"
    /\ signOutCatch
    /\ signOutCalls' = [signOutCalls EXCEPT ![i].pc = "returned"]
    /\ UNCHANGED <<hasSupabaseConfig, supabase, renderedUsers,
                   initialized, mounted, authSubscription, init,
                   listeners, updateCalls, createCalls, provider, called>>

\* The oldest 100 ms timer of signOut fires: window.location.href = '/'.
NavTimerFire ==
    /\ navTimers # << >>
    /\ navTimers' = Tail(navTimers)
    /\ location' = "/"
    /\ UNCHANGED <<hasSupabaseConfig, supabase, renderedUsers,
                   store, mounted, authSubscription, init,
                   listeners, signOutCalls, updateCalls, createCalls, provider, called>>

\* ----------------------------------------------------------- updateProfile
\* updateProfile({ role }) of a render whose user was u, up to its await;
\* without a user or a client it returns.
updateProfileStart(role, u) ==
    IF u = Null \/ ~supabase
    THEN /\ updateCalls' = Append(updateCalls, [pc |-> "returned", id |-> Null, role |-> Null])
         /\ called' = called
    ELSE /\ updateCalls' = Append(updateCalls, [pc |-> "awaiting", id |-> u, role |-> role])
         /\ called' = called \cup {"from"}

\* A consumer calls updateProfile(updates): the function of the current
\* render or one it holds from an earlier render, whose user was u.
UpdateProfileCall(role, u) ==
    /\ CanCall
    /\ u \in renderedUsers
    /\ updateProfileStart(role, u)
    /\ UNCHANGED <<hasSupabaseConfig, supabase, renderedUsers,
                   store, mounted, authSubscription, init,
                   listeners, signOutCalls, createCalls, navTimers, location, provider>>

\* The provider updated the row of call i and returned it: setProfile(data).
updateProfileData(i) ==
    LET data == [id |-> updateCalls[i].id, role |-> updateCalls[i].role] IN
    /\ profilesTable' = [profilesTable EXCEPT ![updateCalls[i].id] = data]
    /\ profile' = data
    /\ updateCalls' = [updateCalls EXCEPT ![i].pc = "returned"]

UpdateProfileAnswer(i) ==
    /\ i \in 1..Len(updateCalls)
    /\ updateCalls[i].pc = "awaiting"
    /\ profilesTable[updateCalls[i].id] # NullProfile
    /\ updateProfileData(i)
    /\ UNCHANGED <<hasSupabaseConfig, supabase, renderedUsers,
                   user, session, loading, error, initialized,
                   mounted, authSubscription, init, listeners, signOutCalls, createCalls,
                   navTimers, location, accounts, called>>

\* The update of call i answered an error (such as no row to update) or
\* rejected: rethrown.
UpdateProfileError(i) ==
    /\ i \in 1..Len(updateCalls)
    /\ updateCalls[i].pc = "awaiting"
    /\ updateCalls' = [updateCalls EXCEPT ![i].pc = "threw"]
    /\ UNCHANGED <<hasSupabaseConfig, supabase, renderedUsers,
                   store, mounted, authSubscription, init,
                   listeners, signOutCalls, createCalls, navTimers, location, provider, called>>

\* ------------------------------------------------------------ createClient
\* createClient(...) up to `await supabase.auth.admin.createUser(...)`;
\* without a client it throws.
createClientStart ==
    IF ~supabase
    THEN createCalls' = Append(createCalls, [pc |-> "threw"]) /\ called' = called
    ELSE createCalls' = Append(createCalls, [pc |-> "createUser"])
         /\ called' = called \cup {"createUser"}

\* A consumer calls createClient(email, password, fullName).
CreateClientCall ==
    /\ CanCall
    /\ createClientStart
    /\ UNCHANGED <<hasSupabaseConfig, supabase, renderedUsers,
                   store, mounted, authSubscription, init,
                   listeners, signOutCalls, updateCalls, navTimers, location, provider>>

\* The provider created the account for call i: the profile insert is sent.
createClientInsert(i) ==
    /\ createCalls' = [createCalls EXCEPT ![i].pc = "insert"]
    /\ called' = called \cup {"from"}
    /\ UNCHANGED store

CreateUserAnswer(i) ==
    /\ i \in 1..Len(createCalls)
    /\ createCalls[i].pc = "createUser"
    /\ accounts' = accounts \cup {NewClientId}
    /\ createClientInsert(i)
    /\ UNCHANGED <<hasSupabaseConfig, supabase, renderedUsers,
                   mounted, authSubscription, init, listeners,
                   signOutCalls, updateCalls, navTimers, location, profilesTable>>

\* createUser of call i answered an error or rejected: rethrown, no insert.
CreateUserError(i) ==
    /\ i \in 1..Len(createCalls)
    /\ createCalls[i].pc = "createUser"
    /\ createCalls' = [createCalls EXCEPT ![i].pc = "threw"]
    /\ UNCHANGED <<hasSupabaseConfig, supabase, renderedUsers,
                   store, mounted, authSubscription, init,
                   listeners, signOutCalls, updateCalls, navTimers, location, provider, called>>

\* Variant of clientRow with the administrator's role.
clientRowAdmin == [id |-> NewClientId, role |-> "admin"]

\* The row the insert of createClient writes.
clientRow == [id |-> NewClientId, role |-> "client"]

\* The insert of call i succeeded: createClient returns.
CreateInsertAnswer(i) ==
    /\ i \in 1..Len(createCalls)
    /\ createCalls[i].pc = "insert"
    /\ profilesTable' = [profilesTable EXCEPT ![NewClientId] = clientRow]
    /\ createCalls' = [createCalls EXCEPT ![i].pc = "returned"]
    /\ UNCHANGED <<hasSupabaseConfig, supabase, renderedUsers,
                   store, mounted, authSubscription, init,
                   listeners, signOutCalls, updateCalls, navTimers, location, accounts, called>>

\* Variant of createClientInsertFailed that also reports the error in the store.
createClientInsertFailedSetsError(i) ==
    /\ createCalls' = [createCalls EXCEPT ![i].pc = "threw"]
    /\ error' = "Authentication error occurred"
    /\ UNCHANGED <<user, profile, session, loading, initialized>>

\* The insert of call i answered an error or rejected: rethrown; the account stays.
createClientInsertFailed(i) ==
    /\ createCalls' = [createCalls EXCEPT ![i].pc = "threw"]
    /\ UNCHANGED store

CreateInsertError(i) ==
    /\ i \in 1..Len(createCalls)
    /\ createCalls[i].pc = "insert"
    /\ createClientInsertFailed(i)
    /\ UNCHANGED <<hasSupabaseConfig, supabase, renderedUsers,
                   mounted, authSubscription, init,
                   listeners, signOutCalls, updateCalls, navTimers, location, provider, called>>

\* ------------------------------------------------------------------ router
\* Variant of AppContent that looks at the profile before the user.
AppContentProfileFirst(l, u, p) ==
    IF l THEN "loading"
    ELSE IF p = NullProfile THEN "profile-pending"
    ELSE IF u = Null THEN "login"
    ELSE IF p.role = "admin" THEN "admin"
    ELSE "client"

\* AppContent: the view rendered for { loading, user, profile }.
AppContent(l, u, p) ==
    IF l THEN "loading"
    ELSE IF u = Null THEN "login"
    ELSE IF p = NullProfile THEN "profile-pending"
    ELSE IF p.role = "admin" THEN "admin"
    ELSE "client"

view == AppContent(loading, user, profile)

\* ----------------------------------------------------------- specification
GetSession ==
    \/ \E s \in SessionOrNull : GetSessionAnswer(s, FALSE)
    \/ GetSessionAnswer(Null, TRUE)
    \/ \E why \in {"rejected", "timeout"} : GetSessionFail(why)

InitFetch ==
    \/ \E ans \in QueryAnswers : InitFetchAnswer(ans)
    \/ InitFetchRetry
    \/ InitFetchResume

\* A step of invocation i of the callback after its first await.
ListenerStep(i) ==
    /\ i \in 1..Len(listeners)
    /\ \/ \E ans \in QueryAnswers : ListenerFetchAnswer(i, ans)
       \/ ListenerFetchRetry(i)
       \/ ListenerFetchResume(i)

Listener ==
    \/ \E e \in EventNames, s \in SessionOrNull : Deliver(e, s)
    \/ \E i \in 1..MaxEvents : ListenerStep(i)

\* A step of call i of signOut() after its await.
SignOutStep(i) ==
    \/ \E err \in BOOLEAN : SignOutAnswer(i, err)
    \/ SignOutThrow(i)

SignOut ==
    \/ SignOutCall
    \/ \E i \in 1..MaxCalls : SignOutStep(i)
    \/ NavTimerFire

UpdateProfile ==
    \/ \E r \in Roles, u \in SessionOrNull : UpdateProfileCall(r, u)
    \/ \E i \in 1..MaxCalls : UpdateProfileAnswer(i)
    \/ \E i \in 1..MaxCalls : UpdateProfileError(i)

CreateClient ==
    \/ CreateClientCall
    \/ \E i \in 1..MaxCalls : CreateUserAnswer(i)
    \/ \E i \in 1..MaxCalls : CreateUserError(i)
    \/ \E i \in 1..MaxCalls : CreateInsertAnswer(i)
    \/ \E i \in 1..MaxCalls : CreateInsertError(i)

Next ==
    \/ UseEffect
    \/ GetSession
    \/ InitFetch
    \/ Listener
    \/ Cleanup
    \/ SignOut
    \/ UpdateProfile
    \/ CreateClient

Spec == Init /\ [][Next]_vars

\* The session flows alone: the bootstrap, the listener, the cleanup and
\* signOut, without updateProfile and createClient, which touch neither the
\* session nor a flow's control.
SessionNext ==
    \/ UseEffect
    \/ GetSession
    \/ InitFetch
    \/ Listener
    \/ Cleanup
    \/ SignOut

\* Every provider call is answered and every timer fires; the page's effect
\* runs.  Nothing obliges the provider to deliver an event, a consumer to call
\* an operation, or the component to be torn down.
Fairness ==
    /\ WF_vars(UseEffect)
    /\ WF_vars(GetSession)
    /\ WF_vars(InitFetch)
    /\ \A i \in 1..MaxEvents : WF_vars(ListenerStep(i))
    /\ \A i \in 1..MaxCalls : WF_vars(SignOutStep(i))
    /\ WF_vars(NavTimerFire)

FairSpec == Init /\ [][SessionNext]_vars /\ Fairness

\* ================================================================== claims
Views == {"loading", "login", "profile-pending", "admin", "client"}

\* No listener event has been handled, no operation of the store has been
\* called and the component is mounted.
Undisturbed == mounted /\ Len(listeners) = 0 /\ callsMade = 0

\* C1: without provider configuration no provider method is ever called and
\* no subscription exists, and once the effect has run the store holds
\* loading = false, user = null and the configuration message as error.
C1_UnconfiguredTerminal ==
    ~hasSupabaseConfig =>
        /\ called = {}
        /\ authSubscription = Null
        /\ init.pc # "start" =>
              (loading = FALSE /\ user = Null /\ error = ConfigError)

C1_Witness ==
    ~hasSupabaseConfig /\ init.pc = "done" /\ loading = FALSE /\ error = ConfigError

\* C2, as stated: once getSession has returned an active session for U, the
\* store eventually holds loading = false, user = U and U's profile row (null
\* if there is none), unless the component is torn down or the page is left.
C2_AsStated ==
    \A u \in Users :
        (init.pc = "query" /\ init.sessUser = u)
            ~> \/ ~mounted
               \/ location = "/"
               \/ (loading = FALSE /\ user = u /\ profile = profilesTable[u])

\* C2, amended: once getSession has returned an active session for U, then
\* unless a listener event, a store operation or a teardown intervenes, the
\* bootstrap eventually ends with loading = false, user = U, session = U's and
\* profile U's row or null, null if there is no row; the profile it writes is
\* what fetchProfile returned, which is U's row when a query answered it and
\* null otherwise, and a query that fails otherwise than by "not found" ends
\* the fetch only at the last attempt.
C2_SessionAdopted ==
    /\ \A u \in Users :
          (init.pc = "query" /\ init.sessUser = u)
              ~> \/ ~Undisturbed
                 \/ /\ init.pc = "done"
                    /\ loading = FALSE
                    /\ user = u
                    /\ session = u
                    /\ profile \in {profilesTable[u], NullProfile}
    /\ [][ /\ \A ans \in QueryAnswers :
                (InitFetchAnswer(ans) /\ init'.pc = "fetched") =>
                   /\ init'.userProfile = IF ans = "data" THEN profilesTable[init.sessUser]
                                                          ELSE NullProfile
                   /\ ans \in {"error", "throw"} => init.attempt = Retries
           /\ (InitFetchResume /\ mounted) => profile' = init.userProfile ]_vars

C2_Witness ==
    /\ Undisturbed
    /\ init.pc = "done"
    /\ loading = FALSE
    /\ user = "u1"
    /\ session = "u1"
    /\ profile = profilesTable["u1"]
    /\ profile # NullProfile

\* C3: a "not found" answer on any attempt makes fetchProfile return null at
\* once: no backoff timer is started and no provider method is invoked; the
\* caller, resumed, writes the null profile while mounted and ends, and a
\* process that has ended stays ended.
C3_NotFoundEndsFetch ==
    [][ /\ InitFetchAnswer("PGRST116") =>
             /\ init'.pc = "fetched"
             /\ init'.userProfile = NullProfile
             /\ init'.delay = 0
             /\ called' = called
        /\ \A i \in 1..Len(listeners) :
             ListenerFetchAnswer(i, "PGRST116") =>
                 /\ listeners'[i].pc = "fetched"
                 /\ listeners'[i].userProfile = NullProfile
                 /\ listeners'[i].delay = 0
                 /\ called' = called
        /\ InitFetchResume =>
             /\ init' = DoneTask
             /\ called' = called
             /\ mounted => profile' = init.userProfile
        /\ \A i \in 1..Len(listeners) :
             ListenerFetchResume(i) =>
                 /\ listeners'[i] = DoneTask
                 /\ called' = called
                 /\ mounted => profile' = listeners[i].userProfile
        /\ init.pc = "done" => init'.pc = "done"
        /\ \A i \in 1..Len(listeners) :
             listeners[i].pc = "done" => listeners'[i].pc = "done" ]_vars

\* The bootstrap's fetch for u2, who has no row, has returned null after a
\* single query sequence with nothing else going on.
C3_Witness ==
    /\ Undisturbed
    /\ init.pc = "done"
    /\ user = "u2"
    /\ profilesTable["u2"] = NullProfile
    /\ profile = NullProfile
    /\ loading = FALSE

\* C4: the handling of a SIGNED_OUT event leaves user, profile, session and
\* error null, whatever the store held and whatever is in flight.
C4_SignedOutClears ==
    [][ (\E s \in SessionOrNull : Deliver("SIGNED_OUT", s)) =>
            /\ user' = Null
            /\ profile' = NullProfile
            /\ session' = Null
            /\ error' = Null ]_vars

\* A listener invocation has ended while the bootstrap's profile fetch, which
\* had adopted a user, is in flight, and the four fields are null.
C4_Witness ==
    /\ Len(listeners) = 1
    /\ listeners[1].pc = "done"
    /\ init.pc \in {"query", "backoff"}
    /\ callsMade = 0
    /\ user = Null /\ profile = NullProfile /\ session = Null /\ error = Null

\* C5, as stated: every call of signOut() eventually results in a navigation
\* to the root path.
C5_AsStated == (signOutCalls # << >>) ~> (location = "/")

\* C5, amended: every call of signOut() on a configured provider eventually
\* results in a navigation to the root path, whether the provider's call
\* succeeds, answers an error or throws; without a configured provider
\* signOut() returns at once and never navigates.
C5_SignOutNavigates ==
    /\ (signOutCalls # << >> /\ supabase) ~> (location = "/")
    /\ [](~supabase => (location = Null /\ navTimers = << >>))

\* Two calls of signOut() have returned, and the page was navigated.
C5_Witness ==
    /\ supabase
    /\ Len(signOutCalls) = 2
    /\ \A i \in 1..2 : signOutCalls[i].pc = "returned"
    /\ location = "/"

\* C6: a call of updateProfile while user is null returns at once: it changes
\* no field of the store, invokes no provider method and changes nothing at
\* the provider.
C6_UpdateWithoutUser ==
    [][ \A r \in Roles, u \in SessionOrNull :
          (UpdateProfileCall(r, u) /\ user = Null) =>
              /\ UNCHANGED <<store, called, provider>>
              /\ updateCalls' = Append(updateCalls,
                                       [pc |-> "returned", id |-> Null, role |-> Null]) ]_vars

\* C7: no step of createClient changes a field of the store; when the insert
\* fails after the account was created, createClient throws and the store is
\* as it was.
C7_CreateClientKeepsStore ==
    [][ /\ createCalls' # createCalls => UNCHANGED store
        /\ \A i \in 1..Len(createCalls) :
             CreateInsertError(i) =>
                 /\ createCalls'[i].pc = "threw"
                 /\ NewClientId \in accounts'
                 /\ UNCHANGED store ]_vars

C7_Witness ==
    /\ Len(createCalls) = 1
    /\ createCalls[1].pc = "threw"
    /\ NewClientId \in accounts
    /\ profilesTable[NewClientId] = NullProfile

\* C8: for every loading, user and profile the router renders exactly the view
\* the priority order gives: loading; else login without a user; else
\* profile-pending without a profile; else admin for role "admin"; else client.
ViewIsByPriority(l, u, p, v) ==
    /\ v \in Views
    /\ (v = "loading") <=> l
    /\ (v = "login") <=> (~l /\ u = Null)
    /\ (v = "profile-pending") <=> (~l /\ u # Null /\ p = NullProfile)
    /\ (v = "admin") <=> (~l /\ u # Null /\ p # NullProfile /\ p.role = "admin")
    /\ (v = "client") <=> (~l /\ u # Null /\ p # NullProfile /\ p.role # "admin")

C8_RouterPriority ==
    /\ ViewIsByPriority(loading, user, profile, view)
    /\ \A l \in BOOLEAN, u \in SessionOrNull, p \in Profiles \cup {NullProfile} :
          ViewIsByPriority(l, u, p, AppContent(l, u, p))

C8_Witness == view = "client" /\ user = "u1" /\ profile.id = "u1"

\* C9: the result of a profile fetch started for user A is written to profile
\* only while the store's user is still A.
C9_NoStaleProfile ==
    [][ /\ (InitFetchResume /\ mounted) => user = init.sessUser
        /\ \A i \in 1..Len(listeners) :
             (ListenerFetchResume(i) /\ mounted) => user = listeners[i].sessUser ]_vars

\* C10: after the cleanup the subscription is unsubscribed, and no step of the
\* bootstrap or of a listener invocation changes a field of the store.
C10_NoWriteAfterCleanup ==
    /\ [](~mounted => authSubscription # "active")
    /\ [](~mounted /\ supabase => authSubscription = "unsubscribed")
    /\ [][ (~mounted /\ (init' # init \/ listeners' # listeners)) => UNCHANGED store ]_vars

\* The bootstrap had adopted a user, was suspended in its profile fetch at the
\* cleanup, and has ended since without resetting loading.
C10_Witness ==
    /\ ~mounted
    /\ init.pc = "done"
    /\ Len(listeners) = 0
    /\ callsMade = 0
    /\ user # Null
    /\ loading = TRUE

\* A process is inside fetchProfile: a query or a backoff timer is pending.
Fetching(t) == t.pc \in {"query", "backoff"}

\* What a failure other than "not found" of the query of attempt n makes of a
\* process t running fetchProfile, as C11 states it: t2 is the process after.
FailureHandled(t, t2) ==
    /\ t.attempt \in 1..Retries
    /\ t.attempt = 1 => t2 = [t EXCEPT !.pc = "backoff", !.delay = 1000]
    /\ t.attempt = 2 => t2 = [t EXCEPT !.pc = "backoff", !.delay = 2000]
    /\ t.attempt = 3 =>
          t2 = [t EXCEPT !.pc = "fetched", !.attempt = 0, !.delay = 0,
                         !.userProfile = NullProfile]

\* C11: one fetchProfile call sends at most 3 queries; a failure other than
\* "not found" of attempt 1 starts a timer of 1000 ms and of attempt 2 one of
\* 2000 ms, after which the next attempt sends its query; the third failure
\* ends the fetch with null at once; no step of a fetch, nor its caller's
\* resumption, changes the error field; a fetch never throws (it only ever
\* returns), and every fetch ends and its caller with it.
C11_FetchRetries ==
    /\ [](/\ init.attempt \in 0..3
          /\ \A i \in 1..Len(listeners) : listeners[i].attempt \in 0..3)
    /\ [][ /\ \A ans \in {"error", "throw"} :
               /\ InitFetchAnswer(ans) =>
                     /\ FailureHandled(init, init')
                     /\ called' = called
                     /\ UNCHANGED store
               /\ \A i \in 1..Len(listeners) :
                     ListenerFetchAnswer(i, ans) =>
                        /\ FailureHandled(listeners[i], listeners'[i])
                        /\ called' = called
                        /\ UNCHANGED store
           /\ InitFetchResume => (init' = DoneTask /\ error' = error)
           /\ \A i \in 1..Len(listeners) :
                 ListenerFetchResume(i) => (listeners'[i] = DoneTask /\ error' = error)
           /\ InitFetchRetry =>
                 init' = [init EXCEPT !.pc = "query", !.attempt = init.attempt + 1,
                                      !.delay = 0]
           /\ \A i \in 1..Len(listeners) :
                 ListenerFetchRetry(i) =>
                    listeners'[i] = [listeners[i] EXCEPT !.pc = "query",
                                        !.attempt = listeners[i].attempt + 1, !.delay = 0] ]_vars
    /\ Fetching(init) ~> (init.pc = "done")
    /\ \A i \in 1..MaxEvents :
          (i <= Len(listeners) /\ Fetching(listeners[i]))
              ~> (i <= Len(listeners) /\ listeners[i].pc = "done")

\* The second query of a listener invocation's fetch has failed and the
\* 2000 ms timer is pending, after a bootstrap whose fetch has ended.
C11_Witness ==
    /\ init.pc = "done"
    /\ Len(listeners) = 1
    /\ listeners[1].pc = "backoff"
    /\ listeners[1].attempt = 2
    /\ listeners[1].delay = 2000
    /\ error = Null

\* The store after a bootstrap that found no usable session.
SignedOutStore == <<Null, NullProfile, Null, FALSE, Null, TRUE>>

\* C12: when getSession answers a session error, rejects, or loses the race
\* against the 5 s timer while the component is mounted, the bootstrap ends in
\* that step and leaves user, profile, session and error null and loading
\* false: the same store in the three cases, whatever it held before.
C12_SessionFailureClears ==
    [][ ( /\ mounted
          /\ \/ GetSessionAnswer(Null, TRUE)
             \/ GetSessionFail("rejected")
             \/ GetSessionFail("timeout") ) =>
            /\ init' = FailedTask
            /\ user' = Null /\ profile' = NullProfile /\ session' = Null /\ error' = Null
            /\ loading' = FALSE
            /\ store' = SignedOutStore ]_vars

\* A SIGNED_IN event had made the store adopt a user while getSession was
\* pending; the bootstrap has failed since, clearing the store, while the
\* event's profile fetch is still in flight.
C12_Witness ==
    /\ mounted
    /\ init.pc = "failed"
    /\ Len(listeners) = 1
    /\ listeners[1].pc = "query"
    /\ callsMade = 0
    /\ store = SignedOutStore

\* The bootstrap has not reached a terminal outcome.
Bootstrapping == init.pc \in {"start", "getSession", "query", "backoff", "fetched"}

\* C13: during startup, with no operation of the store called, loading is
\* true as long as the bootstrap has not reached a terminal outcome, and the
\* step that makes it false is the bootstrap's step to that outcome: no
\* listener event handled before makes it false.
C13_LoadingUntilTerminal ==
    /\ []((Bootstrapping /\ callsMade = 0) => loading)
    /\ [][ (loading /\ ~loading' /\ callsMade = 0) =>
              (init' # init /\ init'.pc \in {"done", "failed"}) ]_vars

\* The events the callback's switch has no case for.
OtherEvents == EventNames \ {"SIGNED_IN", "TOKEN_REFRESHED", "SIGNED_OUT", "USER_UPDATED"}

\* C14: the handling of an event of the default case that carries a session
\* for user U adopts session and user, and starts a profile fetch exactly when
\* the store holds no profile or a profile of another id: none when the store
\* already holds U's profile.
C14_RefetchOnlyIfChanged ==
    [][ \A e \in OtherEvents, s \in Users :
          (Deliver(e, s) /\ mounted) =>
              /\ session' = s
              /\ user' = s
              /\ (listeners'[Len(listeners')].pc = "query")
                    <=> (profile = NullProfile \/ profile.id # s) ]_vars

\* C15: the handling of a SIGNED_IN or TOKEN_REFRESHED event with a session
\* for user U sets session and user to U's and error to null and sends the
\* first query for U's row, the profile being left as it was, before it
\* suspends; when the fetch returns while mounted, profile becomes its
\* result, the row a query returned or else null.  The same event without a
\* session changes none of user, profile, session and error.
C15_SignedInAdopts ==
    [][ /\ Len(listeners') > Len(listeners) =>
           \A e \in {"SIGNED_IN", "TOKEN_REFRESHED"} :
             /\ \A s \in Users :
                   (Deliver(e, s) /\ mounted) =>
                       /\ session' = s
                       /\ user' = s
                       /\ error' = Null
                       /\ profile' = profile
                       /\ listeners' = Append(listeners,
                              [pc |-> "query", sessUser |-> s, attempt |-> 1, delay |-> 0,
                               userProfile |-> NullProfile])
                       /\ "from" \in called'
             /\ Deliver(e, Null) =>
                   /\ UNCHANGED <<user, profile, session, error>>
                   /\ listeners' = Append(listeners, DoneTask)
                   /\ called' = called
        /\ (Len(listeners') = Len(listeners) /\ listeners' # listeners) =>
           \A i \in 1..Len(listeners) :
             /\ \A ans \in QueryAnswers :
                   (ListenerFetchAnswer(i, ans) /\ listeners'[i].pc = "fetched") =>
                       /\ listeners'[i].userProfile =
                             IF ans = "data" THEN profilesTable[listeners[i].sessUser]
                                             ELSE NullProfile
                       /\ UNCHANGED store
             /\ (ListenerFetchResume(i) /\ mounted) =>
                   /\ profile' = listeners[i].userProfile
                   /\ UNCHANGED <<user, session, error>> ]_vars

\* After a failed bootstrap the listener has adopted u1 and its fetch has
\* ended with u1's row as profile.
C15_Witness ==
    /\ mounted
    /\ init.pc = "failed"
    /\ Len(listeners) = 1
    /\ listeners[1] = DoneTask
    /\ callsMade = 0
    /\ user = "u1"
    /\ session = "u1"
    /\ profile = profilesTable["u1"]
    /\ profile # NullProfile
    /\ error = Null

\* C16: a call of signOut() on a configured store sets loading and calls the
\* provider's sign-out before anything else; whatever the provider does then
\* (a success, an error result or a thrown exception), signOut() returns with
\* user, profile, session and error null and loading false.
C16_SignOutClears ==
    [][ /\ (SignOutCall /\ supabase) =>
              /\ loading' = TRUE
              /\ "signOut" \in called'
              /\ signOutCalls' = Append(signOutCalls, [pc |-> "awaiting"])
              /\ UNCHANGED <<user, profile, session, error>>
        /\ \A i \in 1..Len(signOutCalls) :
              SignOutStep(i) =>
                  /\ signOutCalls'[i].pc = "returned"
                  /\ user' = Null
                  /\ profile' = NullProfile
                  /\ session' = Null
                  /\ error' = Null
                  /\ loading' = FALSE ]_vars

\* C17: a call of updateProfile with a user in the store sends one update for
\* the id of that user and changes nothing in the store; when the provider
\* returns the updated row, that row becomes the store's profile and nothing
\* else changes; when the update fails, updateProfile throws and user,
\* profile, session, loading and error are as they were.
C17_UpdateProfile ==
    [][ /\ \A r \in Roles, u \in SessionOrNull :
             (UpdateProfileCall(r, u) /\ user # Null /\ supabase) =>
                 /\ updateCalls' = Append(updateCalls,
                                          [pc |-> "awaiting", id |-> user, role |-> r])
                 /\ "from" \in called'
                 /\ UNCHANGED <<store, provider>>
        /\ \A i \in 1..Len(updateCalls) :
             /\ UpdateProfileAnswer(i) =>
                   /\ updateCalls'[i].pc = "returned"
                   /\ profile' = [id |-> updateCalls[i].id, role |-> updateCalls[i].role]
                   /\ profile' = profilesTable'[updateCalls[i].id]
                   /\ UNCHANGED <<user, session, loading, error, initialized>>
             /\ UpdateProfileError(i) =>
                   /\ updateCalls'[i].pc = "threw"
                   /\ UNCHANGED <<store, provider>>
             /\ updateCalls[i].pc \in {"returned", "threw"} =>
                   updateCalls'[i] = updateCalls[i] ]_vars

\* C18: createClient sends the profile insert only in the step in which the
\* provider answers that the account was created, and the row it inserts has
\* the account's id and role "client"; when the account creation fails no
\* insert is sent and nothing changes at the provider; when the insert fails
\* createClient throws and the account stays, and its profile row exists only
\* if a call of createClient has returned.
C18_CreateClientNoRollback ==
    /\ [](\A i \in 1..Len(createCalls) :
             createCalls[i].pc = "insert" => NewClientId \in accounts)
    /\ [](profilesTable[NewClientId] \in
             {NullProfile, [id |-> NewClientId, role |-> "client"]})
    /\ [](profilesTable[NewClientId] # NullProfile =>
             \E i \in 1..Len(createCalls) : createCalls[i].pc = "returned")
    /\ [][ /\ \A i \in 1..Len(createCalls) :
                /\ (createCalls[i].pc # "insert" /\ createCalls'[i].pc = "insert") =>
                      (CreateUserAnswer(i) /\ NewClientId \in accounts'
                                           /\ "from" \in called')
                /\ CreateUserError(i) =>
                      (createCalls'[i].pc = "threw" /\ UNCHANGED <<provider, called>>)
                /\ CreateInsertError(i) =>
                      /\ createCalls'[i].pc = "threw"
                      /\ NewClientId \in accounts'
                      /\ UNCHANGED provider
                /\ createCalls[i].pc = "threw" => createCalls'[i] = createCalls[i]
           /\ profilesTable'[NewClientId] # profilesTable[NewClientId] =>
                 \E i \in 1..Len(createCalls) :
                     CreateInsertAnswer(i) /\ NewClientId \in accounts
           /\ accounts \subseteq accounts' ]_vars

\* createClient has thrown after both of its provider calls: the account
\* exists and the profiles collection is as it was, without a row for it.
C18_Witness ==
    /\ Len(createCalls) = 1
    /\ createCalls[1].pc = "threw"
    /\ {"createUser", "from"} \subseteq called
    /\ accounts = Users \cup {NewClientId}
    /\ profilesTable = InitialTable

\* C19: the store follows the provider's latest report.  While getSession is
\* pending the store's user can only be one that a listener event has
\* reported since; the bootstrap's later step, on getSession's result, error
\* or timeout, has to leave that user in place, so that the store ends with
\* the user of the session reported last.
C19_LateBootstrapKeepsEvent ==
    [][ ( /\ init.pc = "getSession"
          /\ init' # init
          /\ mounted
          /\ callsMade = 0
          /\ Len(listeners) > 0
          /\ user # Null ) => user' = user ]_vars

\* C20: whenever the router renders the admin view, the store holds a user
\* and that user's own profile, and the profile has role "admin".
C20_AdminViewOwnProfile ==
    view = "admin" =>
        /\ user # Null
        /\ profile.id = user
        /\ profile.role = "admin"

====
